---- MODULE Spec2Model ----
(***************************************************************************)
(* The poll-detect-notify loop of 3scorebot.py: fetch_live_matches,        *)
(* parse_sofascore_match, check_for_3goals_and_alert, the startup summary  *)
(* and first-cycle seeding of run_bot, the sliced sleep and handle_exit.   *)
(***************************************************************************)
EXTENDS Integers, Sequences, FiniteSets, TLC

(***************************************************************************)
(* Bounds of the model and program constants.                              *)
(***************************************************************************)
\* longest list of raw records one fetch returns
MaxLen == 2
\* POLL_INTERVAL, the number of one-second sleep slices of a cycle (600 on line 27),
\* scaled down: no operation reads it but the range of the sleep loop
POLL_INTERVAL == 2
\* matches[:10] in format_startup_message (line 176)
SummaryCap == 10
\* longest list of raw records a poll of the busy feed returns
MaxFeed == 12

\* Python's None as the value of data["id"] when the record has no "id"
None == -1

Min(a, b) == IF a < b THEN a ELSE b

(***************************************************************************)
(* Raw records.  A nested field of the JSON ("homeScore": {"current": 3})  *)
(* is one of                                                               *)
(*   absent : the outer key is missing (dict.get returns its default {})   *)
(*   notobj : the outer key holds something that is no object (null, a     *)
(*            string): the chained .get raises AttributeError              *)
(*   noval  : an object without the inner key                              *)
(*   null   : an object whose inner key is null                            *)
(*   int    : an object whose inner key is the integer v                   *)
(*   numstr : an object whose inner key is the decimal string of v         *)
(*   badstr : an object whose inner key is a non-numeric string            *)
(*   str    : (names) an object whose inner key is the string s            *)
(***************************************************************************)
RawScore(kind, v) == [kind |-> kind, v |-> v]

RawName(kind, s) == [kind |-> kind, s |-> s]

\* the score pairs (homeScore, awayScore) the feed delivers in the model
ObservedScores ==
    { <<RawScore("int", 3), RawScore("int", 0)>>,
      <<RawScore("null", 0), RawScore("numstr", 3)>>,
      <<RawScore("int", 4), RawScore("absent", 0)>>,
      <<RawScore("badstr", 0), RawScore("int", 0)>> }

\* the ids the feed delivers in the model: a missing id, the falsy id 0, a match id
MatchIds == {None, 0, 1}

RawRecords ==
    { [id |-> d, homeScore |-> s[1], awayScore |-> s[2],
       homeTeam |-> RawName("str", "A"), awayTeam |-> RawName("absent", ""),
       status |-> RawName("noval", ""),
       tournament |-> RawName("str", "L"), category |-> RawName("absent", "")] :
        d \in MatchIds, s \in ObservedScores }

RECURSIVE SeqsUpTo(_, _)
SeqsUpTo(S, n) ==
    IF n = 0 THEN {<<>>}
    ELSE LET shorter == SeqsUpTo(S, n - 1)
         IN  shorter \cup { Append(q, x) : q \in {t \in shorter : Len(t) = n - 1}, x \in S }

MatchLists == SeqsUpTo(RawRecords, MaxLen)

(***************************************************************************)
(* parse_sofascore_match                                                   *)
(***************************************************************************)
\* match.get(key, {}) on a value that is no object: AttributeError
GetRaises(field) == field.kind = "notobj"

\* match.get(key, {}).get("name", default)
GetName(field, default) ==
    IF field.kind \in {"absent", "noval"} THEN default
    ELSE IF field.kind = "null" THEN "None"
    ELSE field.s

\* int(gh) after "if gh is None: gh = 0": ValueError on a non-numeric string
IntRaises(field) == field.kind = "badstr"

\* match.get(key, {}).get("current", 0), None replaced by 0, then int()
GetScore(field) ==
    IF field.kind \in {"absent", "noval", "null"} THEN 0 ELSE field.v

\* f"{category} - {league}" if category else league
FullLeagueName(category, league) ==
    IF category = "" THEN <<league>> ELSE <<category, " - ", league>>

ParseRaises(m) ==
    \/ GetRaises(m.homeTeam) \/ GetRaises(m.awayTeam)
    \/ GetRaises(m.homeScore) \/ GetRaises(m.awayScore)
    \/ GetRaises(m.status) \/ GetRaises(m.tournament) \/ GetRaises(m.category)
    \/ IntRaises(m.homeScore) \/ IntRaises(m.awayScore)

\* the dictionary parse_sofascore_match returns when it does not raise
ParseData(m) ==
    [id |-> m.id,
     home |-> GetName(m.homeTeam, "Home"),
     away |-> GetName(m.awayTeam, "Away"),
     gh |-> GetScore(m.homeScore),
     ga |-> GetScore(m.awayScore),
     status |-> GetName(m.status, "In Play"),
     league |-> FullLeagueName(GetName(m.category, ""), GetName(m.tournament, "Unknown League"))]

parse_sofascore_match(m) ==
    [raised |-> ParseRaises(m), data |-> IF ParseRaises(m) THEN <<>> ELSE ParseData(m)]

\* a slip: the away side is forgotten
HomeThreeNil(gh, ga) == gh = 3 /\ ga = 0

\* a slip: a threshold instead of the equality
AtLeastThree(gh, ga) == (gh >= 3 /\ ga = 0) \/ (gh = 0 /\ ga >= 3)

\* the score test of line 209
IsThreeNil(gh, ga) == (gh = 3 /\ ga = 0) \/ (gh = 0 /\ ga = 3)

\* a slip: only the id 0 is skipped
FalsyZero(match_id) == match_id = 0

\* "if not match_id": None and 0 are falsy
Falsy(match_id) == match_id = None \/ match_id = 0

(***************************************************************************)
(* send_telegram and send_telegram_photo.  The channel answers env:        *)
(* whether the photo file exists, whether the sendPhoto request succeeds   *)
(* and whether the sendMessage request succeeds.                           *)
(***************************************************************************)
Channel == [fileFound : BOOLEAN, photoOk : BOOLEAN, textOk : BOOLEAN]

send_telegram(env) == env.textOk

send_telegram_photo(env) ==
    IF ~env.fileFound THEN send_telegram(env) ELSE env.photoOk

(***************************************************************************)
(* fetch_live_matches.  A response is what the source (the fixture file in *)
(* test mode, the HTTP endpoint otherwise) does on this call.              *)
(***************************************************************************)
FileFailures == {"nofile", "badjson", "ioerror"}

HttpFailures == {"timeout", "forbidden", "request", "unexpected"}

\* TEST_MODE is static configuration (line 31); the file failures are those of
\* the test-mode branch, the HTTP failures those of the live branch
Responses ==
    [kind : {"ok"}, events : MatchLists]
        \cup [kind : FileFailures \cup HttpFailures, events : {<<>>}]

\* a slip: the catch-all handler of lines 167-169 is missing
FetchUncaught(response) ==
    [raised |-> response.kind = "unexpected",
     matches |-> IF response.kind = "ok" THEN response.events ELSE <<>>]

\* every failure branch logs and returns []; the last handler catches Exception,
\* so no failure leaves the function
fetch_live_matches(response) ==
    [raised |-> FALSE,
     matches |-> IF response.kind = "ok" THEN response.events ELSE <<>>]

FetchFailed(response) == response.kind # "ok"

(***************************************************************************)
(* format_startup_message: the parsed top matches and the trailing count.  *)
(***************************************************************************)
\* a slip: the cap is forgotten
TopMatchesAll(ms) == ms

\* "top_matches = matches[:10]" (line 176)
TopMatches(ms) == SubSeq(ms, 1, Min(Len(ms), SummaryCap))

FormatRaises(ms) == \E j \in 1..Len(TopMatches(ms)) : ParseRaises(ms[j])

\* listed: the matches of the message, in order; counted: the message ends with
\* the line "_{len(matches)} total live matches found..." (lines 188-191), which
\* the message of an empty list (line 179) does not have
format_startup_message(ms) ==
    [listed |-> [j \in 1..Len(TopMatches(ms)) |-> ParseData(ms[j])],
     counted |-> TopMatches(ms) # <<>>,
     total |-> Len(ms),
     more |-> Len(ms) > Len(TopMatches(ms))]

(***************************************************************************)
(* State.  The module-level globals of lines 43-45, the locals of run_bot  *)
(* and check_for_3goals_and_alert, and the record of what the process did. *)
(***************************************************************************)
VARIABLES
    pc,                   \* where run_bot is: loop, fetch, detect, startup, sleep, sleeping, stopped, crashed
    running,              \* line 45
    startup_message_sent, \* line 44
    notified_matches,     \* line 43
    matches,              \* the list fetch_live_matches returned to this cycle
    idx,                  \* position of "for m in matches" in the detector pass
    slice,                \* position of "for _ in range(POLL_INTERVAL)"
    out,                  \* the message the last step handed to the channel
    fetch_failed,         \* the latest fetch took a failure branch
    passStart,            \* notified_matches when this detector pass began
    passLog,              \* the goal alerts of this detector pass, in order
    attempted,            \* ids a goal alert was attempted for, this process
    delivered,            \* ids a goal alert was delivered for, this process
    observed30,           \* ids the detector parsed at 3-0 or 0-3, this process
    moved,                \* delivered ids the detector later parsed at another score
    summaries,            \* startup summaries handed to the channel, this process
    deliveredBefore       \* ids a goal alert was delivered for by an earlier process

vars == <<pc, running, startup_message_sent, notified_matches, matches, idx, slice, out,
          fetch_failed, passStart, passLog, attempted, delivered, observed30, moved,
          summaries, deliveredBefore>>

history == <<attempted, delivered, observed30, moved, summaries, deliveredBefore>>

\* the score the claims call "exactly 3-0 or 0-3"
ThreeNil(gh, ga) == <<gh, ga>> \in {<<3, 0>>, <<0, 3>>}

NoOut ==
    [kind |-> "none", id |-> None, ok |-> FALSE, again |-> FALSE, scorer |-> "",
     listed |-> 0, total |-> 0, counted |-> FALSE, shown |-> <<>>]

\* a goal alert handed to the channel; again: an alert was attempted for the id before
AlertOut(data, ok, again) ==
    [kind |-> "alert", id |-> data.id, ok |-> ok, again |-> again,
     scorer |-> IF data.gh = 3 THEN data.home ELSE data.away, listed |-> 0, total |-> 0,
     counted |-> FALSE, shown |-> <<>>]

\* the startup summary handed to the channel: how many matches it lists, the
\* ids of the listed matches in order, whether it ends with the count line and
\* the count
SummaryOut(msg, ok) ==
    [kind |-> "summary", id |-> None, ok |-> ok, again |-> FALSE, scorer |-> "",
     listed |-> Len(msg.listed), total |-> msg.total, counted |-> msg.counted,
     shown |-> [j \in 1..Len(msg.listed) |-> msg.listed[j].id]]

Alive == pc \notin {"stopped", "crashed"}

\* a new process: the module-level assignments of lines 43-45
Globals ==
    /\ notified_matches = {}
    /\ startup_message_sent = FALSE
    /\ running = TRUE

Init ==
    /\ Globals
    /\ pc = "loop"
    /\ matches = <<>>
    /\ idx = 1
    /\ slice = 0
    /\ out = NoOut
    /\ fetch_failed = FALSE
    /\ passStart = {}
    /\ passLog = <<>>
    /\ attempted = {}
    /\ delivered = {}
    /\ observed30 = {}
    /\ moved = {}
    /\ summaries = 0
    /\ deliveredBefore = {}

\* "while running:" (line 242)
LoopTest ==
    /\ pc = "loop"
    /\ pc' = IF running THEN "fetch" ELSE "stopped"
    /\ out' = NoOut
    /\ UNCHANGED <<running, startup_message_sent, notified_matches, matches, idx, slice,
                   fetch_failed, passStart, passLog, history>>

\* a slip: the detector pass of the cycle is left out
SummaryFirst(raised) == IF raised THEN "crashed" ELSE "startup"

\* after the fetch comes the detector pass (line 246), before line 248
AfterFetch(raised) == IF raised THEN "crashed" ELSE "detect"

\* "matches = fetch_live_matches()" (line 243), the source answering with one
\* of responses
FetchFrom(responses) ==
    /\ pc = "fetch"
    /\ \E response \in responses :
          LET r == fetch_live_matches(response)
          IN  /\ matches' = r.matches
              /\ pc' = AfterFetch(r.raised)
              /\ fetch_failed' = FetchFailed(response)
    /\ idx' = 1
    /\ passStart' = notified_matches
    /\ passLog' = <<>>
    /\ out' = NoOut
    /\ UNCHANGED <<running, startup_message_sent, notified_matches, slice, history>>

Fetch == FetchFrom(Responses)

\* a slip: the notified set is not consulted
TriggersNoDedup(data, notified) ==
    /\ ~Falsy(data.id)
    /\ IsThreeNil(data.gh, data.ga)

\* whether the detector sends a goal alert for the parsed record (line 209)
Triggers(data, notified) ==
    /\ ~Falsy(data.id)
    /\ IsThreeNil(data.gh, data.ga)
    /\ data.id \notin notified

\* a slip: the id is added whatever the send returned
AfterSendAlways(notified, match_id, ok) == notified \cup {match_id}

\* a slip: the set is never added to
AfterSendNever(notified, match_id, ok) == notified

\* a slip: the set is assigned, not added to
AfterSendOnly(notified, match_id, ok) == IF ok THEN {match_id} ELSE notified

\* notified_matches after the send (lines 223-225)
AfterSend(notified, match_id, ok) ==
    IF ok THEN notified \cup {match_id} ELSE notified

\* one iteration of "for m in matches" in check_for_3goals_and_alert (lines 197-225)
DetectRecord ==
    /\ pc = "detect"
    /\ idx <= Len(matches)
    /\ LET p == parse_sofascore_match(matches[idx])
           data == p.data
       IN  IF p.raised
           THEN \* the exception leaves check_for_3goals_and_alert and run_bot
                /\ pc' = "crashed"
                /\ out' = NoOut
                /\ UNCHANGED <<notified_matches, idx, passLog, history>>
           ELSE /\ pc' = "detect"
                /\ idx' = idx + 1
                /\ observed30' = IF ThreeNil(data.gh, data.ga)
                                 THEN observed30 \cup {data.id} ELSE observed30
                /\ moved' = IF data.id \in delivered /\ ~ThreeNil(data.gh, data.ga)
                            THEN moved \cup {data.id} ELSE moved
                /\ IF Triggers(data, notified_matches)
                   THEN \E env \in Channel :
                          LET ok == send_telegram_photo(env)
                          IN  /\ out' = AlertOut(data, ok, data.id \in attempted)
                              /\ notified_matches' = AfterSend(notified_matches, data.id, ok)
                              /\ passLog' = Append(passLog, <<data.id, ok>>)
                              /\ attempted' = attempted \cup {data.id}
                              /\ delivered' = IF ok THEN delivered \cup {data.id} ELSE delivered
                   ELSE /\ out' = NoOut
                        /\ UNCHANGED <<notified_matches, passLog, attempted, delivered>>
                /\ UNCHANGED <<summaries, deliveredBefore>>
    /\ UNCHANGED <<running, startup_message_sent, matches, slice, fetch_failed, passStart>>

\* the for loop of check_for_3goals_and_alert is exhausted; back in run_bot (line 248)
DetectEnd ==
    /\ pc = "detect"
    /\ idx > Len(matches)
    /\ pc' = "startup"
    /\ out' = NoOut
    /\ UNCHANGED <<running, startup_message_sent, notified_matches, matches, idx, slice,
                   fetch_failed, passStart, passLog, history>>

\* a slip: the flag is not consulted
SummaryAlwaysDue(sent) == TRUE

\* "if not startup_message_sent:" (line 248)
SummaryDue(sent) == ~sent

\* a slip: the away side is forgotten in the seeding
SeedHomeOnly(data) == data.gh = 3 /\ data.ga = 0

\* a slip: every match of the first cycle is seeded
SeedAny(data) == TRUE

\* the test of line 256
SeedCondition(data) == (data.gh = 3 /\ data.ga = 0) \/ (data.gh = 0 /\ data.ga = 3)

\* the ids lines 254-257 add: data['id'] of every record at 3-0 or 0-3
SeedIds(ms) ==
    { ParseData(ms[j]).id : j \in { n \in 1..Len(ms) : SeedCondition(ParseData(ms[n])) } }

SeedRaises(ms) == \E j \in 1..Len(ms) : ParseRaises(ms[j])

\* the cycle's work is over: lines 260-261, the locals of the cycle are dead
EnterSleep ==
    /\ pc' = "sleep"
    /\ slice' = 0
    /\ matches' = <<>>
    /\ idx' = 1
    /\ passStart' = {}
    /\ passLog' = <<>>

\* "if not startup_message_sent:" taken (lines 248-257)
StartupSummary ==
    /\ pc = "startup"
    /\ SummaryDue(startup_message_sent)
    /\ IF FormatRaises(matches) \/ SeedRaises(matches)
       THEN /\ pc' = "crashed"
            /\ out' = NoOut
            /\ UNCHANGED <<startup_message_sent, notified_matches, matches, idx, slice,
                           passStart, passLog, summaries>>
       ELSE /\ \E env \in Channel :
                 out' = SummaryOut(format_startup_message(matches), send_telegram(env))
            /\ startup_message_sent' = TRUE
            /\ summaries' = summaries + 1
            /\ notified_matches' = notified_matches \cup SeedIds(matches)
            /\ EnterSleep
    /\ UNCHANGED <<running, fetch_failed, attempted, delivered, observed30, moved,
                   deliveredBefore>>

\* "if not startup_message_sent:" not taken (line 248)
NoStartupSummary ==
    /\ pc = "startup"
    /\ ~SummaryDue(startup_message_sent)
    /\ out' = NoOut
    /\ EnterSleep
    /\ UNCHANGED <<running, fetch_failed, startup_message_sent, notified_matches, history>>

\* a slip: the flag is not looked at between the slices
SleepsThrough(slept, run) == slept < POLL_INTERVAL

\* another slice is slept: the range is not exhausted and "if not running: break"
\* is not taken (lines 261-263)
KeepsSleeping(slept, run) == slept < POLL_INTERVAL /\ run

\* the head of "for _ in range(POLL_INTERVAL)" and "if not running: break" (lines 261-263)
SleepCheck ==
    /\ pc = "sleep"
    /\ pc' = IF KeepsSleeping(slice, running) THEN "sleeping" ELSE "loop"
    /\ out' = NoOut
    /\ UNCHANGED <<running, startup_message_sent, notified_matches, matches, idx, slice,
                   fetch_failed, passStart, passLog, history>>

\* "time.sleep(1)" returns (line 264)
SleepSlice ==
    /\ pc = "sleeping"
    /\ slice' = slice + 1
    /\ pc' = "sleep"
    /\ out' = NoOut
    /\ UNCHANGED <<running, startup_message_sent, notified_matches, matches, idx,
                   fetch_failed, passStart, passLog, history>>

\* SIGINT or SIGTERM is delivered: handle_exit (lines 228-231)
HandleExit ==
    /\ Alive
    /\ running' = FALSE
    /\ out' = NoOut
    /\ UNCHANGED <<pc, startup_message_sent, notified_matches, matches, idx, slice,
                   fetch_failed, passStart, passLog, history>>

\* a slip: the set is loaded from what the previous process left
KeptNotified(previous) == previous

\* "notified_matches = set()" when the module is loaded (line 43): nothing of
\* the previous process is read
FreshNotified(previous) == {}

\* the script is started again after the process ended (lines 43-45, 267-268)
Restart ==
    /\ ~Alive
    /\ notified_matches' = FreshNotified(notified_matches)
    /\ startup_message_sent' = FALSE
    /\ running' = TRUE
    /\ pc' = "loop"
    /\ out' = NoOut
    /\ deliveredBefore' = deliveredBefore \cup delivered
    /\ attempted' = {}
    /\ delivered' = {}
    /\ observed30' = {}
    /\ moved' = {}
    /\ summaries' = 0
    /\ matches' = <<>>
    /\ idx' = 1
    /\ slice' = 0
    /\ fetch_failed' = FALSE
    /\ passStart' = {}
    /\ passLog' = <<>>

Step ==
    \/ LoopTest
    \/ Fetch
    \/ DetectRecord
    \/ DetectEnd
    \/ StartupSummary
    \/ NoStartupSummary
    \/ SleepCheck
    \/ SleepSlice

Next ==
    \/ Step
    \/ HandleExit

Spec == Init /\ [][Next]_vars

\* the interpreter runs the loop whenever it can take a step
LiveSpec == Init /\ [][Next]_vars /\ WF_vars(Step)

\* process lifetimes in sequence
NextRestart ==
    \/ Next
    \/ Restart

SpecRestart == Init /\ [][NextRestart]_vars

(***************************************************************************)
(* The loop on a busy feed: lists of up to MaxFeed records that all have   *)
(* the same shape, the record at position j carrying the id j.  The shapes *)
(* range over the forms a score or a name takes in the JSON; none is at    *)
(* 3-0, so these polls exercise parse_sofascore_match and                  *)
(* format_startup_message and send no goal alert.                          *)
(***************************************************************************)
FeedScores ==
    { RawScore("absent", 0), RawScore("noval", 0), RawScore("null", 0),
      RawScore("int", 4), RawScore("numstr", 2), RawScore("badstr", 0),
      RawScore("notobj", 0) }

FeedNames(s) == { RawName("absent", ""), RawName("noval", ""), RawName("str", s) }

FeedShapes ==
    [id : {None},
     homeScore : FeedScores,
     awayScore : {RawScore("absent", 0), RawScore("numstr", 1)},
     homeTeam : FeedNames("A"),
     awayTeam : {RawName("absent", ""), RawName("str", "B")},
     status : {RawName("noval", "")},
     tournament : {RawName("absent", ""), RawName("str", "L")},
     category : {RawName("absent", ""), RawName("str", "C")}]

FeedLists ==
    { [j \in 1..n |-> [shape EXCEPT !.id = j]] : n \in 0..MaxFeed, shape \in FeedShapes }

FeedResponses ==
    [kind : {"ok"}, events : FeedLists]
        \cup [kind : FileFailures \cup HttpFailures, events : {<<>>}]

FetchFeed == FetchFrom(FeedResponses)

StepFeed ==
    \/ LoopTest
    \/ FetchFeed
    \/ DetectRecord
    \/ DetectEnd
    \/ StartupSummary
    \/ NoStartupSummary
    \/ SleepCheck
    \/ SleepSlice

NextFeed ==
    \/ StepFeed
    \/ HandleExit

FeedSpec == Init /\ [][NextFeed]_vars

(***************************************************************************)
(* Vocabulary of the properties.                                           *)
(***************************************************************************)
\* the goal alerts of this detector pass for id d, and the delivered ones
AttemptsInPass(d) == { n \in 1..Len(passLog) : passLog[n][1] = d }

DeliveredInPass(d) == { n \in 1..Len(passLog) : passLog[n] = <<d, TRUE>> }

\* the records of this cycle the detector has been through
Evaluated == 1..(idx - 1)

\* record j of this cycle shows its match at exactly 3-0 or 0-3
ShowsThreeNil(j) == ThreeNil(ParseData(matches[j]).gh, ParseData(matches[j]).ga)

\* this step is an iteration of the detector's loop over record idx
DetectorStep == pc = "detect" /\ idx <= Len(matches) /\ (pc' # pc \/ idx' # idx)

GoalAlert(o) == o.kind = "alert"

\* the record carries an id: neither missing nor the id 0 the detector reads as missing
HasId(d) == d # None /\ d # 0

C2_NoAlertOnceNotified ==
    [][GoalAlert(out') => out'.id \notin notified_matches]_vars

\* the detector has just been through a record at 3-0 of a match that was
\* alerted, then seen at another score, and sent nothing
C2_Witness ==
    /\ pc = "detect"
    /\ idx > 1
    /\ ShowsThreeNil(idx - 1)
    /\ matches[idx - 1].id \in moved
    /\ matches[idx - 1].id \in notified_matches
    /\ passLog = <<>>
    /\ out = NoOut

(***************************************************************************)
(* C3.  A goal alert is handed to the channel only by the detector's step  *)
(* over a record whose parsed score is exactly 3-0 or 0-3, and it is the   *)
(* alert of that record's id; so every id an alert was attempted for was   *)
(* observed at 3-0 or 0-3.                                                 *)
(***************************************************************************)
C3_AlertOnlyAtThreeNil ==
    /\ [][GoalAlert(out') =>
            /\ DetectorStep
            /\ ~ParseRaises(matches[idx])
            /\ ShowsThreeNil(idx)
            /\ out'.id = matches[idx].id]_vars
    /\ [](attempted \subseteq observed30)

\* a pass has ended over a match at 4-0 that was never seen at 3-0: nothing sent
C3_Witness ==
    /\ pc = "startup"
    /\ Len(matches) = 1
    /\ matches[1].id = 1
    /\ ParseData(matches[1]).gh = 4 /\ ParseData(matches[1]).ga = 0
    /\ 1 \notin observed30
    /\ 1 \notin attempted
    /\ passLog = <<>>

C6_MalformedRecordIsolated ==
    [][DetectorStep => (pc' = "detect" /\ idx' = idx + 1)]_vars

(***************************************************************************)
(* C7.  After a fetch that failed the cycle has an empty list, the process *)
(* has not died, no goal alert is sent, and the detector pass leaves the   *)
(* notified set as it found it; the loop goes on to its sleep.             *)
(***************************************************************************)
C7_FailedFetchIsEmptyCycle ==
    fetch_failed =>
        /\ matches = <<>>
        /\ pc # "crashed"
        /\ ~GoalAlert(out)
        /\ pc \in {"detect", "startup"} => (passLog = <<>> /\ notified_matches = passStart)

\* a later cycle's fetch failed while a match is in the notified set, and the
\* loop has reached its sleep
C7_Witness ==
    /\ fetch_failed
    /\ pc = "sleeping"
    /\ 1 \in notified_matches
    /\ startup_message_sent

(***************************************************************************)
(* C8.  As stated: the startup summary is sent at most once and only in a  *)
(* cycle whose fetch succeeded; a cycle whose fetch failed does not send   *)
(* it.                                                                     *)
(***************************************************************************)
C8_SummaryOnSuccessfulFetch ==
    /\ summaries <= 1
    /\ out.kind = "summary" => ~fetch_failed

(***************************************************************************)
(* C8 amended.  The startup summary is handed to the channel at most once  *)
(* per process lifetime, exactly when the startup flag is set, and every   *)
(* cycle that gets to its sleep has it behind it: the first cycle sends    *)
(* it, whether its fetch succeeded or failed, and no later cycle does.     *)
(***************************************************************************)
C8_SummaryOnceInFirstCycle ==
    /\ summaries = IF startup_message_sent THEN 1 ELSE 0
    /\ pc \in {"sleep", "sleeping"} => summaries = 1
    /\ out.kind = "summary" => (summaries = 1 /\ pc = "sleep" /\ slice = 0)

\* the first cycle's fetch failed and the summary, of no matches, was sent
C8_Witness ==
    /\ out.kind = "summary"
    /\ fetch_failed
    /\ out.total = 0
    /\ startup_message_sent

(***************************************************************************)
(* C9.  As stated: once a shutdown request has set the flag in a live      *)
(* process, the loop reaches STOPPED, the loop being scheduled whenever it *)
(* can take a step.                                                        *)
(***************************************************************************)
C9_ShutdownReachesStopped == (Alive /\ ~running) ~> (pc = "stopped")

(***************************************************************************)
(* C10.  A process that starts after another ended starts with an empty    *)
(* notified set and the startup flag false, and in its first cycle every   *)
(* record at 3-0 or 0-3 the detector has been through, of a match an       *)
(* earlier process delivered an alert for, has had an alert attempted.     *)
(***************************************************************************)
C10_RestartForgets ==
    /\ [][(~Alive /\ Alive') =>
            (notified_matches' = {} /\ ~startup_message_sent' /\ running')]_vars
    /\ []((~startup_message_sent /\ pc \in {"detect", "startup", "crashed"}) =>
            \A j \in Evaluated :
                (ShowsThreeNil(j) /\ matches[j].id \in deliveredBefore)
                    => matches[j].id \in attempted)

\* in the first cycle of a later process a match alerted by an earlier process
\* is alerted for the first time in this process
C10_Witness ==
    /\ 1 \in deliveredBefore
    /\ ~startup_message_sent
    /\ GoalAlert(out) /\ out.id = 1 /\ out.ok /\ ~out.again
    /\ ShowsThreeNil(idx - 1) /\ matches[idx - 1].id = 1

(***************************************************************************)
(* C11.  As stated: parse_sofascore_match never raises and returns a match *)
(* for every raw record the detector hands it: a missing or malformed home *)
(* or away score yields 0, both scores are non-negative integers, and a    *)
(* missing team or league name yields "Home", "Away", "Unknown League".    *)
(***************************************************************************)
MissingOrMalformed(field) == field.kind \notin {"int", "numstr"}

Missing(field) == field.kind \in {"absent", "noval"}

C11_ParseNeverRaises ==
    [][DetectorStep =>
        LET m == matches[idx]
            p == parse_sofascore_match(m)
        IN  /\ pc' # "crashed"
            /\ ~p.raised
            /\ p.data.gh \in Nat /\ p.data.ga \in Nat
            /\ MissingOrMalformed(m.homeScore) => p.data.gh = 0
            /\ MissingOrMalformed(m.awayScore) => p.data.ga = 0
            /\ Missing(m.homeTeam) => p.data.home = "Home"
            /\ Missing(m.awayTeam) => p.data.away = "Away"
            /\ (Missing(m.tournament) /\ Missing(m.category))
                    => p.data.league = <<"Unknown League">>]_vars

(***************************************************************************)
(* C12.  As stated: for every fetched list of n matches the startup        *)
(* summary lists exactly min(n, 10) matches, the first ones in fetch       *)
(* order, and ends with a line stating the total count n.                  *)
(***************************************************************************)
\* the ids of the first k records of this cycle's list, in fetch order
FirstIds(k) == [j \in 1..k |-> matches[j].id]

StartupSummaryMsg(o) == o.kind = "summary"

C12_SummaryListsAndCounts ==
    [][StartupSummaryMsg(out') =>
        /\ out'.listed = Min(Len(matches), 10)
        /\ out'.shown = FirstIds(Min(Len(matches), 10))
        /\ out'.counted
        /\ out'.total = Len(matches)]_vars

(***************************************************************************)
(* C12 amended.  For every fetched list of n matches the startup summary   *)
(* lists exactly min(n, 10) matches, the first ones in fetch order; when   *)
(* n > 0 it ends with a line stating the total count n, and when n = 0 it  *)
(* is the "no live matches found" message, which has no count line.        *)
(***************************************************************************)
C12_SummaryCountsNonEmpty ==
    [][StartupSummaryMsg(out') =>
        /\ out'.listed = Min(Len(matches), 10)
        /\ out'.shown = FirstIds(Min(Len(matches), 10))
        /\ Len(matches) > 0 => (out'.counted /\ out'.total = Len(matches))
        /\ Len(matches) = 0 => ~out'.counted]_vars

\* the summary of a list of 12 matches: the first 10 listed, 12 reported
C12_Witness ==
    /\ StartupSummaryMsg(out)
    /\ out.listed = 10
    /\ out.shown = <<1, 2, 3, 4, 5, 6, 7, 8, 9, 10>>
    /\ out.counted
    /\ out.total = 12

(***************************************************************************)
(* C13.  Once the shutdown flag is set while the loop is in its sleep      *)
(* phase (before a slice, in a slice, or back at the loop test), the loop  *)
(* finishes at most the slice it is in, begins no further slice, and goes  *)
(* to the loop test and from there to the end: no fetch, no detector pass  *)
(* and no notification follows, and the flag stays set.                    *)
(***************************************************************************)
SleepPhase == {"sleep", "sleeping", "loop"}

C13_ShutdownDuringSleep ==
    [][(~running /\ pc \in SleepPhase) =>
        /\ ~running'
        /\ out' = NoOut
        /\ notified_matches' = notified_matches
        /\ pc = "sleeping" => (pc' \in {"sleeping", "sleep"} /\ slice' <= slice + 1)
        /\ pc = "sleep" => (pc' \in {"sleep", "loop"} /\ slice' = slice)
        /\ pc = "loop" => (pc' \in {"loop", "stopped"} /\ slice' = slice)]_vars

\* the loop has ended after one slice of a longer sleep: the flag was set
\* during the sleep phase of a cycle
C13_Witness ==
    /\ pc = "stopped"
    /\ ~running
    /\ startup_message_sent
    /\ slice = 1
    /\ slice < POLL_INTERVAL

(***************************************************************************)
(* C14.  Every member of the notified set is the id of a record the        *)
(* detector of this process has read at exactly 3-0 or 0-3, in this cycle  *)
(* or an earlier one.                                                      *)
(***************************************************************************)
C14_NotifiedWasThreeNil == notified_matches \subseteq observed30

\* a member of the set whose match has since been read at another score
C14_Witness ==
    /\ 1 \in notified_matches
    /\ 1 \in moved
    /\ pc = "sleep"

(***************************************************************************)
(* C15.  The notified set never shrinks during a process lifetime: every   *)
(* step leaves it a superset of what it was, and during a cycle it is a    *)
(* superset of the set the cycle's detector pass began with.               *)
(***************************************************************************)
C15_NotifiedGrows ==
    /\ [][notified_matches \subseteq notified_matches']_vars
    /\ [](passStart \subseteq notified_matches)

\* a later cycle delivers an alert for match 1 while the set already holds
\* another member, which stays
C15_Witness ==
    /\ startup_message_sent
    /\ GoalAlert(out) /\ out.ok /\ out.id = 1
    /\ passStart # {}
    /\ passStart \cup {1} = notified_matches
    /\ 1 \notin passStart

(***************************************************************************)
(* C16.  The startup summary is sent in the first cycle only after the     *)
(* detector pass of that cycle has been through every record, and every    *)
(* match that was at 3-0 or 0-3 with an id when the process started has    *)
(* had its goal alert sent in that pass.                                   *)
(***************************************************************************)
C16_DetectorBeforeSummary ==
    [][StartupSummaryMsg(out') =>
        /\ ~startup_message_sent
        /\ pc = "startup"
        /\ Evaluated = 1..Len(matches)
        /\ \A j \in 1..Len(matches) :
              (ShowsThreeNil(j) /\ HasId(matches[j].id))
                  => AttemptsInPass(matches[j].id) # {}]_vars

\* the summary goes out after the alert for match 1 was delivered in the
\* same, first cycle
C16_Witness ==
    /\ StartupSummaryMsg(out)
    /\ summaries = 1
    /\ delivered = {1}
    /\ 1 \in notified_matches

(***************************************************************************)
(* C17.  The step that ends the first cycle leaves the id of every record  *)
(* of that cycle at exactly 3-0 or 0-3 in the notified set, whether its    *)
(* alert was delivered, failed or never sent.  In every later cycle the    *)
(* detector sends an alert for each record at 3-0 or 0-3 whose id is       *)
(* present and not in the set, the id is in the set afterwards exactly     *)
(* when the delivery succeeded, and nothing else enters the set: a match   *)
(* whose alert failed triggers again at the next poll that shows it at     *)
(* 3-0.                                                                    *)
(***************************************************************************)
C17_SeededThenOnlyOnDelivery ==
    [][/\ StartupSummaryMsg(out') =>
              \A j \in 1..Len(matches) :
                  ShowsThreeNil(j) => matches[j].id \in notified_matches'
       /\ (startup_message_sent /\ DetectorStep /\ ShowsThreeNil(idx)
               /\ HasId(matches[idx].id) /\ matches[idx].id \notin notified_matches) =>
              /\ GoalAlert(out') /\ out'.id = matches[idx].id
              /\ out'.id \in notified_matches' <=> out'.ok
       /\ startup_message_sent =>
              \A d \in notified_matches' \ notified_matches :
                  GoalAlert(out') /\ out'.ok /\ out'.id = d]_vars

\* the first cycle ends with match 1 in the set although its only alert failed
C17_Witness ==
    /\ StartupSummaryMsg(out)
    /\ summaries = 1
    /\ attempted = {1}
    /\ delivered = {}
    /\ 1 \in notified_matches

(***************************************************************************)
(* C18.  No goal alert is delivered for an id for which this process has   *)
(* already delivered one, also when the id occurs more than once in one    *)
(* fetched list.                                                           *)
(***************************************************************************)
C18_OneDeliveryPerId ==
    [][(GoalAlert(out') /\ out'.ok) => out'.id \notin delivered]_vars

\* a pass over a list that shows match 1 at 3-0 twice has ended with one
\* alert, delivered
C18_Witness ==
    /\ pc = "startup"
    /\ Len(matches) = 2
    /\ matches[1].id = 1 /\ matches[2].id = 1
    /\ ShowsThreeNil(1) /\ ShowsThreeNil(2)
    /\ passLog = << <<1, TRUE>> >>

(***************************************************************************)
(* C19.  As stated: a missing id (None) is never a member of the notified  *)
(* set, whatever the polls deliver.                                        *)
(***************************************************************************)
C19_NoMissingIdNotified == None \notin notified_matches

====
